---- MODULE Spec2Model ----
(***************************************************************************)
(* Model of the receipt task printer web application:                      *)
(*   web_app.py        /print, /history and /reprint handlers and the      *)
(*                     in-memory history deque                             *)
(*   html_generator.py create_task_image and its two rendering backends    *)
(*   printer.py        print_to_thermal_printer                            *)
(*                                                                         *)
(* Text is a sequence of one-character strings, so that str.strip() is     *)
(* computed and not assumed.  An optional request field is a record        *)
(* [present, v].  Image bytes are records [fmt, w, mode]; fmt "none" is    *)
(* Python's None, "empty" is b"", "junk" is bytes Pillow cannot open,      *)
(* "trunc" is an image file Pillow opens but cannot load.                  *)
(***************************************************************************)
EXTENDS Integers, Sequences, FiniteSets, TLC

VARIABLES
    history,   \* _history: the deque, newest first, as a sequence of entries
    retain,    \* RETAIN_TICKET_FILES, fixed when the module is imported
    pc,        \* per request slot: "idle", "await" (suspended), "done"
    req,       \* per slot: the request being served
    resp,      \* per slot: the response of the finished request
    rlog,      \* per slot: the create_task_image calls the request made
    plog,      \* per slot: the print_to_thermal_printer calls it made
    arrived,   \* per slot: _history as it was when the /print request arrived
    before,    \* per slot: _history as the request found it when it resumed
    after,     \* per slot: _history as the request left it
    issued     \* every entry ever appended: <<[id, sent]>> in append order

vars == <<history, retain, pc, req, resp, rlog, plog, arrived, before, after, issued>>

HISTORY_LIMIT == 10
PRINT_WIDTH == 576

Slots == {1, 2}

-----------------------------------------------------------------------------
(* Text helpers *)

IsSpace(c) == c = " "

RECURSIVE LStrip(_)
LStrip(s) == IF s # <<>> /\ IsSpace(Head(s)) THEN LStrip(Tail(s)) ELSE s

RECURSIVE RStrip(_)
RStrip(s) ==
    IF s # <<>> /\ IsSpace(s[Len(s)]) THEN RStrip(SubSeq(s, 1, Len(s) - 1)) ELSE s

\* Variant: the text is used as submitted
StripKeep(s) == s

\* str.strip()
Strip(s) == RStrip(LStrip(s))

Absent == [present |-> FALSE, v |-> <<>>]
Given(s) == [present |-> TRUE, v |-> s]

\* (field or default): a missing, null or empty field takes the default
OrDefault(f, d) == IF f.present /\ f.v # <<>> THEN f.v ELSE d

Digits == {"0", "1", "2", "3", "4", "5", "6", "7", "8", "9"}

DigitVal(c) ==
    CASE c = "0" -> 0 [] c = "1" -> 1 [] c = "2" -> 2 [] c = "3" -> 3
      [] c = "4" -> 4 [] c = "5" -> 5 [] c = "6" -> 6 [] c = "7" -> 7
      [] c = "8" -> 8 [] OTHER -> 9

RECURSIVE DecValue(_)
DecValue(s) ==
    IF s = <<>> THEN 0
    ELSE 10 * DecValue(SubSeq(s, 1, Len(s) - 1)) + DigitVal(s[Len(s)])

\* int(text): raises ValueError unless the text is a decimal numeral
PyInt(s) ==
    LET signed == s # <<>> /\ s[1] \in {"+", "-"}
        body == IF signed THEN Tail(s) ELSE s
    IN IF body # <<>> /\ \A i \in 1..Len(body) : body[i] \in Digits
       THEN [ok |-> TRUE,
             n |-> IF signed /\ s[1] = "-" THEN 0 - DecValue(body) ELSE DecValue(body)]
       ELSE [ok |-> FALSE, n |-> 0]

\* Variant: any integer is kept as the priority
PriorityKeep(raw) == IF PyInt(raw).ok THEN PyInt(raw).n ELSE 2

\* int(priority_raw), replaced by 2 unless it is 1, 2 or 3
ParsePriority(raw) ==
    IF PyInt(raw).ok /\ PyInt(raw).n \in {1, 2, 3} THEN PyInt(raw).n ELSE 2

-----------------------------------------------------------------------------
(* Image bytes *)

NoBytes == [fmt |-> "none", w |-> 0, mode |-> "-"]
EmptyBytes == [fmt |-> "empty", w |-> 0, mode |-> "-"]
JunkBytes == [fmt |-> "junk", w |-> 0, mode |-> "-"]
Png(w, mode) == [fmt |-> "png", w |-> w, mode |-> mode]
TruncBytes(w) == [fmt |-> "trunc", w |-> w, mode |-> "RGB"]

\* Python truthiness of an Optional[bytes]
Truthy(b) == b.fmt \notin {"none", "empty"}

\* Image.open(BytesIO(b)) succeeds: it reads the header only
Opens(b) == b.fmt \in {"png", "trunc"}

\* Image.open, convert("L") and save(format="PNG") all succeed
Converts(b) == b.fmt = "png"

NoPreview == [has |-> FALSE, data |-> NoBytes]
\* f"data:image/png;base64,{b64encode(b)}"
DataUri(b) == [has |-> TRUE, data |-> b]

\* The grayscale block of handle_print: im.convert("L") saved as PNG; when
\* that raises, the bytes are kept and only the preview is built from them.
\* Variant: bytes that cannot be converted are dropped
GrayscaleOrNothing(b) ==
    IF Converts(b)
    THEN [image_bytes |-> [b EXCEPT !.mode = "L"],
          preview |-> DataUri([b EXCEPT !.mode = "L"])]
    ELSE [image_bytes |-> NoBytes, preview |-> NoPreview]

Grayscale(b) ==
    IF Converts(b)
    THEN [image_bytes |-> [b EXCEPT !.mode = "L"],
          preview |-> DataUri([b EXCEPT !.mode = "L"])]
    ELSE [image_bytes |-> b, preview |-> DataUri(b)]

-----------------------------------------------------------------------------
(* html_generator.py *)

IsoTexts == {<<"2026-02-08">>, <<"2026-02-08T10:00:00", "+00:00">>}

\* str.replace('Z', '+00:00')
ReplaceZ(s) == [i \in 1..Len(s) |-> IF s[i] = "Z" THEN "+00:00" ELSE s[i]]

\* datetime.fromisoformat(text) succeeds
FromIsoFormatOk(s) == ReplaceZ(s) \in IsoTexts

\* create_task_html raises exactly when the due date does not parse
CreateTaskHtmlRaises(task) == ~FromIsoFormatOk(task.due_date)

\* A backend gives (path, bytes) or (None, None); a path only with retain_file
BackendResult(out, retain_file) ==
    [path |-> retain_file /\ out # NoBytes, bytes |-> out]

\* Variant: Selenium is run whatever imgkit returned
ImageSeleniumAlways(ik, se, retain_file) ==
    IF BackendResult(ik, retain_file).bytes # NoBytes
    THEN [raised |-> FALSE, path |-> BackendResult(ik, retain_file).path,
          bytes |-> ik, imgkit |-> 1, selenium |-> 1,
          calls |-> <<"imgkit", "selenium">>, got |-> <<ik, se>>]
    ELSE [raised |-> FALSE, path |-> BackendResult(se, retain_file).path,
          bytes |-> se, imgkit |-> 1, selenium |-> 1,
          calls |-> <<"imgkit", "selenium">>, got |-> <<ik, se>>]

\* create_task_image after the HTML is built: imgkit first, Selenium only
\* when imgkit returned no bytes.  ik and se are what the backends yield.
\* calls lists the backends in the order they were invoked, got what each
\* of them returned.
ImageFromHtml(ik, se, retain_file) ==
    IF BackendResult(ik, retain_file).bytes # NoBytes
    THEN [raised |-> FALSE, path |-> BackendResult(ik, retain_file).path,
          bytes |-> ik, imgkit |-> 1, selenium |-> 0,
          calls |-> <<"imgkit">>, got |-> <<ik>>]
    ELSE [raised |-> FALSE, path |-> BackendResult(se, retain_file).path,
          bytes |-> se, imgkit |-> 1, selenium |-> 1,
          calls |-> <<"imgkit", "selenium">>, got |-> <<ik, se>>]

CreateTaskImage(task, ik, se, retain_file) ==
    IF CreateTaskHtmlRaises(task)
    THEN [raised |-> TRUE, path |-> FALSE, bytes |-> NoBytes,
          imgkit |-> 0, selenium |-> 0, calls |-> <<>>, got |-> <<>>]
    ELSE ImageFromHtml(ik, se, retain_file)

-----------------------------------------------------------------------------
(* printer.py *)

Count(ops, n, op) == Cardinality({i \in 1..n : ops[i] = op})

\* What one call did.  created: transports built by _get_printer; opened:
\* connections opened; ops: the commands issued to the transport, in order,
\* of which the first `completed` returned; closed: close() calls made by
\* the function (it makes none); released: opened connections that are
\* closed again when the caller continues, which is left to the transport
\* object's finalizer.
PrinterResult(raised, err, created, opened, ops, completed, dev, b) ==
    [raised |-> raised, err |-> err, created |-> created, opened |-> opened,
     ops |-> ops, attempts |-> Count(ops, Len(ops), "image"),
     transmits |-> Count(ops, completed, "image"),
     cuts |-> Count(ops, completed, "cut"),
     closed |-> 0, released |-> IF dev.finalized THEN opened ELSE 0,
     bytes |-> b]

\* Variant: the transport is built before the bytes are looked at
PrintChecksBytesLate(b, dev) ==
    IF ~dev.connect THEN PrinterResult(TRUE, "connect", 1, 0, <<>>, 0, dev, b)
    ELSE IF ~Truthy(b)
    THEN PrinterResult(TRUE, "No image provided to print.", 1, 1, <<>>, 0, dev, b)
    ELSE IF ~Opens(b) THEN PrinterResult(TRUE, "open", 1, 1, <<>>, 0, dev, b)
    ELSE IF ~dev.image THEN PrinterResult(TRUE, "image", 1, 1, <<"image">>, 0, dev, b)
    ELSE IF ~dev.cut
    THEN PrinterResult(TRUE, "cut", 1, 1, <<"image", "cut">>, 1, dev, b)
    ELSE PrinterResult(FALSE, "", 1, 1, <<"image", "cut">>, 2, dev, b)

\* Variant: the cut is issued in a finally clause, also after a failed image()
PrintCutsAnyway(b, dev) ==
    IF ~Truthy(b)
    THEN PrinterResult(TRUE, "No image provided to print.", 0, 0, <<>>, 0, dev, b)
    ELSE IF ~dev.connect THEN PrinterResult(TRUE, "connect", 1, 0, <<>>, 0, dev, b)
    ELSE IF ~Opens(b) THEN PrinterResult(TRUE, "open", 1, 1, <<>>, 0, dev, b)
    ELSE IF ~dev.image
    THEN PrinterResult(TRUE, "image", 1, 1, <<"image", "cut">>, 0, dev, b)
    ELSE IF ~dev.cut
    THEN PrinterResult(TRUE, "cut", 1, 1, <<"image", "cut">>, 1, dev, b)
    ELSE PrinterResult(FALSE, "", 1, 1, <<"image", "cut">>, 2, dev, b)

\* print_to_thermal_printer(image_bytes).  dev says which transport
\* operations succeed: opening the Network transport, image(), cut().
PrintToThermalPrinter(b, dev) ==
    IF ~Truthy(b)
    THEN PrinterResult(TRUE, "No image provided to print.", 0, 0, <<>>, 0, dev, b)
    ELSE IF ~dev.connect THEN PrinterResult(TRUE, "connect", 1, 0, <<>>, 0, dev, b)
    ELSE IF ~Opens(b) THEN PrinterResult(TRUE, "open", 1, 1, <<>>, 0, dev, b)
    ELSE IF ~dev.image THEN PrinterResult(TRUE, "image", 1, 1, <<"image">>, 0, dev, b)
    ELSE IF ~dev.cut
    THEN PrinterResult(TRUE, "cut", 1, 1, <<"image", "cut">>, 1, dev, b)
    ELSE PrinterResult(FALSE, "", 1, 1, <<"image", "cut">>, 2, dev, b)

-----------------------------------------------------------------------------
(* web_app.py: history deque and responses *)

Ids(h) == {h[i].id : i \in 1..Len(h)}

\* Variant: the id is the number of entries held plus one
NewIdByLength(h) == Len(h) + 1

\* Variant: the id follows the oldest entry, not the newest
NewIdFromOldest(h) == IF h = <<>> THEN 1 ELSE h[Len(h)].id + 1

\* The id expression of the appended entry
NewId(h) == IF h = <<>> THEN Len(h) + 1 ELSE h[1].id + 1

\* Variant: a deque without maxlen
AppendLeftUnbounded(h, e) == <<e>> \o h

\* Variant: a full deque drops its left end
AppendLeftDropNewest(h, e) ==
    IF Len(h) >= HISTORY_LIMIT THEN <<e>> \o Tail(h) ELSE <<e>> \o h

\* deque(maxlen=HISTORY_LIMIT).appendleft(e): a full deque drops its right end
AppendLeft(h, e) ==
    IF Len(h) >= HISTORY_LIMIT
    THEN <<e>> \o SubSeq(h, 1, HISTORY_LIMIT - 1)
    ELSE <<e>> \o h

NoTask ==
    [has |-> FALSE, name |-> <<>>, priority |-> 0, due_date |-> <<>>,
     operator_signature |-> <<>>]

NoResp ==
    [status |-> 0, json |-> FALSE, success |-> FALSE, error |-> "",
     task |-> NoTask, preview |-> NoPreview, items |-> <<>>]

\* JSONResponse({"success": False, "error": error}, status_code=status)
Failure(status, error) ==
    [NoResp EXCEPT !.status = status, !.json = TRUE, !.error = error]

\* An exception that leaves the handler: the server answers 500, not JSON
Unhandled == [NoResp EXCEPT !.status = 500, !.error = "Internal Server Error"]

Outcome(r, h, renders, prints) ==
    [resp |-> r, hist |-> h, renders |-> renders, prints |-> prints]

-----------------------------------------------------------------------------
(* web_app.py: POST /print *)

UploadBytes == Png(PRINT_WIDTH, "RGB")

\* await attachment.read(), None when there is no upload or the read raises
ReadAttachment(q) ==
    IF q.ctype = "json" THEN NoBytes
    ELSE IF q.attachment = "image" THEN UploadBytes
    ELSE NoBytes

\* Variant: the id is computed from the deque read before the await
IdBasisAtArrival(h, snap) == snap

\* The deque the id expression reads: _history as it is when the entry is
\* built, after the handler's last await (snap is the deque at arrival)
IdBasis(h, snap) == h

\* Variant: the entry keeps the preview only, not the bytes
EntryWithoutBytes(h, snap, name, priority, due_date, conv, operator_signature) ==
    [id |-> NewId(IdBasis(h, snap)), name |-> name, priority |-> priority,
     due_date |-> due_date, preview |-> conv.preview,
     image_bytes |-> NoBytes,
     operator_signature |-> operator_signature]

Entry(h, snap, name, priority, due_date, conv, operator_signature) ==
    [id |-> NewId(IdBasis(h, snap)), name |-> name, priority |-> priority,
     due_date |-> due_date, preview |-> conv.preview,
     image_bytes |-> conv.image_bytes,
     operator_signature |-> operator_signature]

PrintSuccess(name, priority, due_date, operator_signature, preview) ==
    [NoResp EXCEPT !.status = 200, !.json = TRUE, !.success = TRUE,
                   !.task = [has |-> TRUE, name |-> name, priority |-> priority,
                             due_date |-> due_date,
                             operator_signature |-> operator_signature],
                   !.preview = preview]

\* Variant: rejected only when both fields are missing
FieldsMissingBoth(name, due_date) == name = <<>> /\ due_date = <<>>

\* if not name or not due_date
FieldsMissing(name, due_date) == name = <<>> \/ due_date = <<>>

\* if image_path is None and image_bytes is None
RenderFailed(img) == ~img.path /\ img.bytes = NoBytes

\* Variant: the entry is appended whether or not the printer call raised
RecordEvenIfPrintFails(h, snap, name, priority, due_date, operator_signature, conv, render, dev) ==
    LET pr == PrintToThermalPrinter(conv.image_bytes, dev)
    IN Outcome(IF pr.raised THEN Failure(500, "Failed to print")
               ELSE PrintSuccess(name, priority, due_date, operator_signature,
                                 conv.preview),
               AppendLeft(h, Entry(h, snap, name, priority, due_date, conv,
                                   operator_signature)),
               <<render>>, <<pr>>)

\* From the printer call to the response
PrintAndRecord(h, snap, name, priority, due_date, operator_signature, conv, render, dev) ==
    LET pr == PrintToThermalPrinter(conv.image_bytes, dev)
    IN IF pr.raised
       THEN Outcome(Failure(500, "Failed to print"), h, <<render>>, <<pr>>)
       ELSE Outcome(PrintSuccess(name, priority, due_date, operator_signature,
                                 conv.preview),
                    AppendLeft(h, Entry(h, snap, name, priority, due_date, conv,
                                        operator_signature)),
                    <<render>>, <<pr>>)

\* handle_print from the render call on
RenderAndPrint(h, snap, name, priority, due_date, operator_signature, attachment_bytes, env, retain_file) ==
    LET task_obj == [name |-> name, priority |-> priority, due_date |-> due_date,
                     operator_signature |-> operator_signature,
                     attachment_bytes |-> attachment_bytes]
        img == CreateTaskImage(task_obj, env.imgkit, env.selenium, retain_file)
        render == [task |-> task_obj, raised |-> img.raised, bytes |-> img.bytes,
                   imgkit |-> img.imgkit, selenium |-> img.selenium,
                   calls |-> img.calls, got |-> img.got]
    IN IF img.raised THEN Outcome(Unhandled, h, <<render>>, <<>>)
       ELSE IF RenderFailed(img)
       THEN Outcome(Failure(500, "Failed to render ticket image."), h, <<render>>, <<>>)
       ELSE PrintAndRecord(h, snap, name, priority, due_date, operator_signature,
                           IF img.bytes # NoBytes THEN Grayscale(img.bytes)
                           ELSE [image_bytes |-> NoBytes, preview |-> NoPreview],
                           render, env.printer)

\* handle_print, after the request body has been read
HandlePrint(h, snap, q, env, retain_file) ==
    LET name == Strip(OrDefault(q.name, <<>>))
        priority_raw == Strip(OrDefault(q.priority, <<"2">>))
        due_date == Strip(OrDefault(q.due_date, <<>>))
        operator_signature == Strip(OrDefault(q.operator_signature, <<>>))
    IN IF FieldsMissing(name, due_date)
       THEN Outcome(Failure(400, "Missing name or due date."), h, <<>>, <<>>)
       ELSE RenderAndPrint(h, snap, name, ParsePriority(priority_raw), due_date,
                           operator_signature, ReadAttachment(q), env, retain_file)

-----------------------------------------------------------------------------
(* web_app.py: GET /history and POST /reprint *)

\* Variant: the item carries the entry's raw bytes as well
ItemWithBytes(e) ==
    [id |-> e.id, name |-> e.name, priority |-> e.priority,
     due_date |-> e.due_date, preview |-> e.preview,
     image_bytes |-> e.image_bytes]

Item(e) ==
    [id |-> e.id, name |-> e.name, priority |-> e.priority,
     due_date |-> e.due_date, preview |-> e.preview]

\* history(): one item per entry, in deque order
HandleHistory(h) ==
    Outcome([NoResp EXCEPT !.status = 200, !.json = TRUE,
                           !.items = [i \in 1..Len(h) |-> Item(h[i])]],
            h, <<>>, <<>>)

\* str(payload.get("id"))
TargetId(id) ==
    CASE id.kind = "int" -> ToString(id.n)
      [] id.kind = "str" -> id.s
      [] OTHER -> "None"

Matches(h, target_id) == {i \in 1..Len(h) : ToString(h[i].id) = target_id}

\* Variant: the lookup returns the newest entry
FindNewest(h, target_id) == IF h = <<>> THEN 0 ELSE 1

\* next((h for h in _history if str(h["id"]) == target_id), None): the index
\* of the first match, 0 for None
FindEntry(h, target_id) ==
    IF Matches(h, target_id) = {} THEN 0
    ELSE CHOOSE i \in Matches(h, target_id) : \A j \in Matches(h, target_id) : i <= j

\* Variant: no not-found return before the printer call
ReprintUnguarded(h, q, dev) ==
    LET pr == PrintToThermalPrinter(
                  IF FindEntry(h, TargetId(q.id)) = 0 THEN NoBytes
                  ELSE h[FindEntry(h, TargetId(q.id))].image_bytes, dev)
    IN IF pr.raised
       THEN Outcome(Failure(500, "Failed to reprint"), h, <<>>, <<pr>>)
       ELSE Outcome([NoResp EXCEPT !.status = 200, !.json = TRUE, !.success = TRUE],
                    h, <<>>, <<pr>>)

\* Variant: a successful reprint is recorded as a new entry
ReprintRecords(h, q, dev) ==
    LET k == FindEntry(h, TargetId(q.id))
    IN IF k = 0 THEN Outcome(Failure(404, "Not found"), h, <<>>, <<>>)
       ELSE LET pr == PrintToThermalPrinter(h[k].image_bytes, dev)
            IN IF pr.raised
               THEN Outcome(Failure(500, "Failed to reprint"), h, <<>>, <<pr>>)
               ELSE Outcome([NoResp EXCEPT !.status = 200, !.json = TRUE,
                                           !.success = TRUE],
                            AppendLeft(h, [h[k] EXCEPT !.id = NewId(h)]),
                            <<>>, <<pr>>)

\* reprint(), after the request body has been read
HandleReprint(h, q, dev) ==
    LET k == FindEntry(h, TargetId(q.id))
    IN IF k = 0 THEN Outcome(Failure(404, "Not found"), h, <<>>, <<>>)
       ELSE LET pr == PrintToThermalPrinter(h[k].image_bytes, dev)
            IN IF pr.raised
               THEN Outcome(Failure(500, "Failed to reprint"), h, <<>>, <<pr>>)
               ELSE Outcome([NoResp EXCEPT !.status = 200, !.json = TRUE,
                                           !.success = TRUE],
                            h, <<>>, <<pr>>)

-----------------------------------------------------------------------------
(* Requests *)

NoId == [kind |-> "none", n |-> 0, s |-> ""]
IntId(n) == [kind |-> "int", n |-> n, s |-> ""]
StrId(s) == [kind |-> "str", n |-> 0, s |-> s]

NoReq ==
    [op |-> "none", ctype |-> "", name |-> Absent, priority |-> Absent,
     due_date |-> Absent, operator_signature |-> Absent, attachment |-> "none",
     id |-> NoId]

PrintReq(ctype, name, priority, due_date, operator_signature, attachment) ==
    [NoReq EXCEPT !.op = "print", !.ctype = ctype, !.name = name,
                  !.priority = priority, !.due_date = due_date,
                  !.operator_signature = operator_signature,
                  !.attachment = attachment]

ReprintReq(id) == [NoReq EXCEPT !.op = "reprint", !.ctype = "json", !.id = id]

HistoryReq == [NoReq EXCEPT !.op = "history"]

IsoDate == <<"2026-02-08">>

\* The two requests of tests/test_web_app.py
TestMissing == PrintReq("json", Given(<<>>), Absent, Given(<<>>), Absent, "none")
TestTask ==
    PrintReq("json", Given(<<"T">>), Given(<<"2">>), Given(IsoDate),
             Given(<<"Q", "A">>), "none")

InvalidPrints ==
    { TestMissing,
      PrintReq("json", Absent, Absent, Given(IsoDate), Absent, "none"),
      PrintReq("form", Given(<<" ">>), Given(<<"1">>), Given(IsoDate), Absent, "image"),
      PrintReq("json", Given(<<"T">>), Absent, Absent, Absent, "none"),
      PrintReq("form", Given(<<"T">>), Absent, Given(<<" ", " ">>), Absent, "none") }

ValidPrints ==
    { TestTask,
      PrintReq("form", Given(<<" ", "T", " ">>), Absent, Given(IsoDate), Absent,
               "image"),
      PrintReq("form", Given(<<"T">>), Given(<<"1">>), Given(<<" ">> \o IsoDate),
               Absent, "unreadable"),
      PrintReq("json", Given(<<"T">>), Given(<<"x">>), Given(<<"soon">>), Absent,
               "none") }

PrintRequests == InvalidPrints \cup ValidPrints

ReprintRequests ==
    { ReprintReq(NoId), ReprintReq(IntId(1)), ReprintReq(StrId("2")),
      ReprintReq(IntId(3)), ReprintReq(StrId(" 1")), ReprintReq(StrId("1.0")) }

DevOk == [connect |-> TRUE, image |-> TRUE, cut |-> TRUE, finalized |-> TRUE]
DevDown == [DevOk EXCEPT !.connect = FALSE]
Devices ==
    { DevOk, DevDown, [DevOk EXCEPT !.image = FALSE], [DevOk EXCEPT !.cut = FALSE] }

Envs ==
    [imgkit : {NoBytes, Png(PRINT_WIDTH, "RGB"), JunkBytes},
     selenium : {NoBytes, Png(2 * PRINT_WIDTH, "RGB"), EmptyBytes},
     printer : Devices]

\* The inputs of the long runs: few, so that the deque fills and evicts
LongPrints == {TestMissing, TestTask}
LongReprints == {ReprintReq(NoId), ReprintReq(IntId(1))}
LongDevices == {DevOk, DevDown}
LongEnvs ==
    [imgkit : {NoBytes, Png(PRINT_WIDTH, "RGB")}, selenium : {NoBytes},
     printer : LongDevices]

\* The arguments and devices of direct print_to_thermal_printer calls; a
\* device may or may not have its connection closed by the finalizer of
\* the transport object when the call is over
PrinterInputs ==
    { NoBytes, EmptyBytes, JunkBytes, TruncBytes(PRINT_WIDTH),
      Png(PRINT_WIDTH, "L"), Png(2 * PRINT_WIDTH, "L") }
PrinterDevices == Devices \cup {[d EXCEPT !.finalized = FALSE] : d \in Devices}

\* Renderers whose bytes open but do not decode, or are no image at all
RenderEnvs ==
    { [imgkit |-> ik, selenium |-> se, printer |-> dev] :
        ik \in {NoBytes, EmptyBytes, TruncBytes(PRINT_WIDTH), JunkBytes,
                Png(PRINT_WIDTH, "RGB")},
        se \in {NoBytes, TruncBytes(PRINT_WIDTH), EmptyBytes},
        dev \in Devices }

\* What a client may put in the priority field
PriorityFields ==
    { Absent, Given(<<>>), Given(<<" ">>), Given(<<"1">>), Given(<<"2">>),
      Given(<<" ", "3", " ">>), Given(<<"0">>), Given(<<"7">>),
      Given(<<"1", "0">>), Given(<<"-", "1">>), Given(<<"x">>),
      Given(<<"1", ".", "0">>) }

PriorityPrints ==
    { PrintReq(ctype, Given(<<"T">>), p, Given(IsoDate), Absent, "none") :
        ctype \in {"json", "form"}, p \in PriorityFields }

PriorityEnvs ==
    { [imgkit |-> Png(PRINT_WIDTH, "RGB"), selenium |-> NoBytes, printer |-> dev] :
        dev \in LongDevices }

MaxId == 3
MaxIdLong == 12

-----------------------------------------------------------------------------
(* State machine *)

InitWith(retains) ==
    /\ history = <<>>
    /\ retain \in retains
    /\ pc = [r \in Slots |-> "idle"]
    /\ req = [r \in Slots |-> NoReq]
    /\ resp = [r \in Slots |-> NoResp]
    /\ rlog = [r \in Slots |-> <<>>]
    /\ plog = [r \in Slots |-> <<>>]
    /\ arrived = [r \in Slots |-> <<>>]
    /\ before = [r \in Slots |-> <<>>]
    /\ after = [r \in Slots |-> <<>>]
    /\ issued = <<>>

\* The process starts with an empty deque; RETAIN_TICKET_FILES is either way
Init == InitWith(BOOLEAN)

\* RETAIN_TICKET_FILES left at its default
InitLong == InitWith({FALSE})

PrintsInFlight == Cardinality({r \in Slots : pc[r] = "await" /\ req[r].op = "print"})

\* A request arrives; its handler runs up to its first await
Arrive(r, q) ==
    /\ pc[r] # "await"
    /\ pc' = [pc EXCEPT ![r] = "await"]
    /\ req' = [req EXCEPT ![r] = q]
    /\ resp' = [resp EXCEPT ![r] = NoResp]
    /\ rlog' = [rlog EXCEPT ![r] = <<>>]
    /\ plog' = [plog EXCEPT ![r] = <<>>]
    /\ arrived' = [arrived EXCEPT ![r] = IF q.op = "print" THEN history ELSE <<>>]
    /\ before' = [before EXCEPT ![r] = <<>>]
    /\ after' = [after EXCEPT ![r] = <<>>]
    /\ UNCHANGED <<history, retain, issued>>

\* The rest of a handler: no await in it, so it is one step of the event loop
Complete(r, out) ==
    /\ pc' = [pc EXCEPT ![r] = "done"]
    /\ resp' = [resp EXCEPT ![r] = out.resp]
    /\ rlog' = [rlog EXCEPT ![r] = out.renders]
    /\ plog' = [plog EXCEPT ![r] = out.prints]
    /\ before' = [before EXCEPT ![r] = history]
    /\ after' = [after EXCEPT ![r] = out.hist]
    /\ history' = out.hist
    /\ issued' =
         IF out.hist = history THEN issued
         ELSE Append(issued,
                     [id |-> out.hist[1].id,
                      sent |-> IF out.prints = <<>> THEN NoBytes
                               ELSE out.prints[Len(out.prints)].bytes])
    /\ UNCHANGED <<retain, req, arrived>>

\* POST /print up to "await request.json()" / "await attachment.read()"
StartPrint(r, q, cap) ==
    /\ q.op = "print"
    /\ Len(issued) + PrintsInFlight < cap
    /\ Arrive(r, q)

\* POST /print from there to its response
ResumePrint(r, env) ==
    /\ pc[r] = "await"
    /\ req[r].op = "print"
    /\ Complete(r, HandlePrint(history, arrived[r], req[r], env, retain))

\* POST /reprint up to "await request.json()"
StartReprint(r, q) ==
    /\ q.op = "reprint"
    /\ Arrive(r, q)

\* POST /reprint from there to its response
ResumeReprint(r, dev) ==
    /\ pc[r] = "await"
    /\ req[r].op = "reprint"
    /\ Complete(r, HandleReprint(history, req[r], dev))

\* GET /history: the handler has no await
GetHistory(r) ==
    /\ pc[r] # "await"
    /\ req' = [req EXCEPT ![r] = HistoryReq]
    /\ pc' = [pc EXCEPT ![r] = "done"]
    /\ resp' = [resp EXCEPT ![r] = HandleHistory(history).resp]
    /\ rlog' = [rlog EXCEPT ![r] = <<>>]
    /\ plog' = [plog EXCEPT ![r] = <<>>]
    /\ arrived' = [arrived EXCEPT ![r] = <<>>]
    /\ before' = [before EXCEPT ![r] = history]
    /\ after' = [after EXCEPT ![r] = HandleHistory(history).hist]
    /\ history' = HandleHistory(history).hist
    /\ UNCHANGED <<retain, issued>>

CallReq == [NoReq EXCEPT !.op = "call"]

\* print_to_thermal_printer called directly, as the package exports it
CallPrinter(r, b, dev) ==
    /\ pc[r] # "await"
    /\ req' = [req EXCEPT ![r] = CallReq]
    /\ pc' = [pc EXCEPT ![r] = "done"]
    /\ resp' = [resp EXCEPT ![r] = NoResp]
    /\ rlog' = [rlog EXCEPT ![r] = <<>>]
    /\ plog' = [plog EXCEPT ![r] = <<PrintToThermalPrinter(b, dev)>>]
    /\ arrived' = [arrived EXCEPT ![r] = <<>>]
    /\ before' = [before EXCEPT ![r] = history]
    /\ after' = [after EXCEPT ![r] = history]
    /\ UNCHANGED <<history, retain, issued>>

\* One client at a time, every kind of request body and device behaviour
Next ==
    \/ \E q \in PrintRequests : StartPrint(1, q, MaxId)
    \/ \E env \in Envs : ResumePrint(1, env)
    \/ \E q \in ReprintRequests : StartReprint(1, q)
    \/ \E dev \in Devices : ResumeReprint(1, dev)
    \/ GetHistory(1)

Spec == Init /\ [][Next]_vars

\* Concurrent clients, long enough for the deque to fill and evict
NextLong ==
    \/ \E r \in Slots, q \in LongPrints : StartPrint(r, q, MaxIdLong)
    \/ \E r \in Slots, env \in LongEnvs : ResumePrint(r, env)
    \/ \E r \in Slots, q \in LongReprints : StartReprint(r, q)
    \/ \E r \in Slots, dev \in LongDevices : ResumeReprint(r, dev)
    \/ \E r \in Slots : GetHistory(r)

SpecLong == InitLong /\ [][NextLong]_vars

\* The test's request against every kind of rendered bytes
NextRender ==
    \/ StartPrint(1, TestTask, MaxId)
    \/ \E env \in RenderEnvs : ResumePrint(1, env)

SpecRender == Init /\ [][NextRender]_vars

\* Well-formed requests with every kind of priority field
NextPriority ==
    \/ \E q \in PriorityPrints : StartPrint(1, q, MaxId)
    \/ \E env \in PriorityEnvs : ResumePrint(1, env)

SpecPriority == Init /\ [][NextPriority]_vars

\* The print dispatcher alone, on every kind of argument and device
NextPrinter ==
    \E r \in Slots, b \in PrinterInputs, dev \in PrinterDevices : CallPrinter(r, b, dev)

SpecPrinter == InitLong /\ [][NextPrinter]_vars

-----------------------------------------------------------------------------
(* Vocabulary of the properties, defined apart from the handlers *)

DonePrint(r) == pc[r] = "done" /\ req[r].op = "print"
DoneReprint(r) == pc[r] = "done" /\ req[r].op = "reprint"

\* A field that is missing, or empty once surrounding blanks are removed
Blank(f) == ~f.present \/ \A i \in 1..Len(f.v) : f.v[i] = " "

Inked(s) == {i \in 1..Len(s) : s[i] # " "}
Lowest(S) == CHOOSE n \in S : \A m \in S : n <= m
Highest(S) == CHOOSE n \in S : \A m \in S : n >= m

\* The text between the first and the last non-blank character
Trimmed(s) == IF Inked(s) = {} THEN <<>> ELSE SubSeq(s, Lowest(Inked(s)), Highest(Inked(s)))

\* The id a client sent names entry number n
Denotes(id, n) ==
    \/ id.kind = "int" /\ id.n = n
    \/ id.kind = "str" /\ id.s = ToString(n)

Held(id, h) == \E i \in 1..Len(h) : Denotes(id, h[i].id)

Newest(h) == IF h = <<>> THEN 0 ELSE h[1].id

Appended(r) == DonePrint(r) /\ after[r] # before[r]

\* h2 is h1 with one entry pushed at the head, the oldest dropped when full
PushedOne(h1, h2) ==
    /\ Len(h2) = IF Len(h1) < HISTORY_LIMIT THEN Len(h1) + 1 ELSE HISTORY_LIMIT
    /\ SubSeq(h2, 2, Len(h2)) = SubSeq(h1, 1, Len(h2) - 1)

-----------------------------------------------------------------------------
(* Properties *)

\* C1: after any sequence of /print, /reprint and /history requests, the
\* history holds at most HISTORY_LIMIT (10) entries.
C1_HistoryBounded == Len(history) <= HISTORY_LIMIT

\* C1 witness: the deque is full and more entries were appended than it holds.
C1_Witness == Len(history) = HISTORY_LIMIT /\ Len(issued) > HISTORY_LIMIT

\* C2: the ids held in history are pairwise distinct and strictly decreasing
\* from the newest-first head to the tail.
C2_IdsStrictlyDecreasing ==
    \A i, j \in 1..Len(history) : i < j => history[i].id > history[j].id

\* C2 witness: a full deque whose oldest entry is no longer the first print.
C2_Witness == Len(history) = HISTORY_LIMIT /\ history[HISTORY_LIMIT].id > 1

\* C3: every append gives the new entry the id max(held ids) + 1, or 1 when
\* the history is empty, and no id is assigned twice over the process
\* lifetime, evicted entries included.
C3_NextIdNeverReused ==
    /\ \A r \in Slots :
         Appended(r) =>
           after[r][1].id = IF before[r] = <<>> THEN 1
                            ELSE Highest(Ids(before[r])) + 1
    /\ \A i, j \in 1..Len(issued) : issued[i].id = issued[j].id => i = j

\* C3 witness: a print appended to a full deque, evicting the first entry.
C3_Witness ==
    \E r \in Slots :
        /\ Appended(r)
        /\ Len(before[r]) = HISTORY_LIMIT
        /\ before[r][HISTORY_LIMIT].id = 1

\* C4: a /reprint whose id names no entry held in history (a missing id
\* included) answers 404, does not call the printer and leaves history as
\* it was.
C4_ReprintUnknownId ==
    \A r \in Slots :
        DoneReprint(r) /\ ~Held(req[r].id, before[r]) =>
            /\ resp[r].status = 404
            /\ resp[r].json /\ ~resp[r].success
            /\ plog[r] = <<>>
            /\ after[r] = before[r]

\* C4 witness: a /reprint without an id, served while history holds entries.
C4_Witness ==
    \E r \in Slots :
        /\ DoneReprint(r)
        /\ req[r].id = NoId
        /\ before[r] # <<>>
        /\ resp[r].status = 404

\* C5: a /print whose name or due_date is missing or empty after trimming
\* answers 400 with success false; the renderer and the printer are not
\* called and history is unchanged.
C5_MissingFieldsRejected ==
    \A r \in Slots :
        DonePrint(r) /\ (Blank(req[r].name) \/ Blank(req[r].due_date)) =>
            /\ resp[r].status = 400
            /\ resp[r].json /\ ~resp[r].success
            /\ rlog[r] = <<>>
            /\ plog[r] = <<>>
            /\ after[r] = before[r]

\* C5 witness: a form request whose name is only blanks, with a due date.
C5_Witness ==
    \E r \in Slots :
        /\ DonePrint(r)
        /\ req[r].name = Given(<<" ">>)
        /\ ~Blank(req[r].due_date)
        /\ resp[r].status = 400

\* C6: a /print with name and due_date, whose render yields bytes and whose
\* printer call does not raise, answers 200 with success true and task.name
\* the trimmed submitted name, and called the printer exactly once.
C6_PrintSucceedsOnce ==
    \A r \in Slots :
        ( /\ DonePrint(r)
          /\ ~Blank(req[r].name) /\ ~Blank(req[r].due_date)
          /\ rlog[r] # <<>>
          /\ \A k \in 1..Len(rlog[r]) : ~rlog[r][k].raised /\ rlog[r][k].bytes # NoBytes
          /\ \A k \in 1..Len(plog[r]) : ~plog[r][k].raised )
        =>
            /\ resp[r].status = 200
            /\ resp[r].json /\ resp[r].success
            /\ resp[r].task.has
            /\ resp[r].task.name = Trimmed(req[r].name.v)
            /\ Len(plog[r]) = 1
            /\ plog[r][1].transmits = 1

\* C6 witness: a successful print of a name sent with surrounding blanks.
C6_Witness ==
    \E r \in Slots :
        /\ DonePrint(r)
        /\ req[r].name = Given(<<" ", "T", " ">>)
        /\ resp[r].status = 200
        /\ resp[r].task.name = <<"T">>
        /\ Len(plog[r]) = 1

C7_Requests ==
    \A r \in Slots :
        /\ DonePrint(r) /\ rlog[r] # <<>>
             /\ (rlog[r][1].raised \/ rlog[r][1].bytes = NoBytes)
           => resp[r].status = 500 /\ plog[r] = <<>> /\ after[r] = before[r]
        /\ DonePrint(r) /\ (\E k \in 1..Len(plog[r]) : plog[r][k].raised)
           => resp[r].status = 500 /\ after[r] = before[r]
        /\ DonePrint(r) /\ resp[r].status = 200
           => /\ PushedOne(before[r], after[r])
              /\ after[r][1].name = resp[r].task.name
              /\ after[r][1].id \notin Ids(before[r])

C7_Step ==
    history' # history =>
        \E r \in Slots :
            /\ pc[r] = "await" /\ req[r].op = "print" /\ pc'[r] = "done"
            /\ resp'[r].status = 200
            /\ Len(plog'[r]) = 1 /\ ~plog'[r][1].raised
            /\ PushedOne(history, history')

\* C7: history changes only in a /print whose printer call succeeded: a
\* failed render answers 500 without a printer call and a failed printer
\* call answers 500, both leaving history unchanged; a successful /print
\* pushes exactly one entry at the head.
C7_EntryOnlyOnPrintedTicket == [](C7_Requests) /\ [][C7_Step]_vars

\* C7 witness: a /print whose printer call raised, with entries in history.
C7_Witness ==
    \E r \in Slots :
        /\ DonePrint(r)
        /\ plog[r] # <<>> /\ plog[r][1].raised
        /\ before[r] # <<>>
        /\ resp[r].status = 500

\* C8: a /reprint of an id held in history passes the printer exactly the
\* bytes the /print that created the entry passed to it.
C8_ReprintSendsPrintedBytes ==
    \A r \in Slots :
        DoneReprint(r) /\ Held(req[r].id, before[r]) =>
            /\ Len(plog[r]) = 1
            /\ \E k \in 1..Len(issued) :
                 /\ Denotes(req[r].id, issued[k].id)
                 /\ plog[r][1].bytes = issued[k].sent

\* C8 witness: entry 1 reprinted after a later print of different bytes.
C8_Witness ==
    \E r \in Slots :
        /\ DoneReprint(r)
        /\ req[r].id = IntId(1)
        /\ Len(before[r]) >= 2
        /\ Len(plog[r]) = 1
        /\ plog[r][1].bytes = issued[1].sent
        /\ plog[r][1].bytes # before[r][1].image_bytes
        /\ resp[r].status = 200

\* An id is held exactly while fewer than HISTORY_LIMIT newer ids exist
Live(n, newest) == 1 <= n /\ n <= newest /\ newest - n < HISTORY_LIMIT

C9_Window ==
    /\ Newest(history) = Len(issued)
    /\ Ids(history) = {n \in 1..Len(issued) : Live(n, Len(issued))}
    /\ \A r \in Slots :
         DoneReprint(r) /\ req[r].id.kind = "int" =>
            (resp[r].status = 404 <=> ~Live(req[r].id.n, Newest(before[r])))

C9_Step ==
    \A i \in 1..Len(history) :
        (\A j \in 1..Len(history') : history'[j] # history[i]) =>
            /\ Len(history) = HISTORY_LIMIT
            /\ i = HISTORY_LIMIT
            /\ history[i].id = Lowest(Ids(history))
            /\ PushedOne(history, history')
            /\ history'[1].id \notin Ids(history)

\* C9: an entry leaves history only when a new entry is appended to a full
\* history, and it is then the oldest one; so an id is reprintable until
\* HISTORY_LIMIT newer prints have succeeded, and answers 404 afterwards.
C9_OnlyEviction == [](C9_Window) /\ [][C9_Step]_vars

\* C9 witness: /reprint of id 1 answers 404 once the first entry is evicted.
C9_Witness ==
    \E r \in Slots :
        /\ DoneReprint(r)
        /\ req[r].id = IntId(1)
        /\ Len(before[r]) = HISTORY_LIMIT
        /\ Newest(before[r]) > HISTORY_LIMIT
        /\ resp[r].status = 404

\* C10: with /print requests interleaved at their awaits with each other and
\* with /reprint and /history, history never exceeds HISTORY_LIMIT entries
\* and never holds two entries with the same id.
C10_ConcurrentPrintsKeepInvariants ==
    /\ Len(history) <= HISTORY_LIMIT
    /\ Cardinality(Ids(history)) = Len(history)
    /\ \A r \in Slots :
         pc[r] = "done" =>
            Len(after[r]) <= HISTORY_LIMIT /\ Cardinality(Ids(after[r])) = Len(after[r])

\* C10 witness: a print appended to a full deque that another print had
\* changed while this one was suspended.
C10_Witness ==
    \E r \in Slots :
        /\ Appended(r)
        /\ arrived[r] # before[r]
        /\ Len(before[r]) = HISTORY_LIMIT

RenderFailedIn(r) ==
    rlog[r] # <<>> /\ (rlog[r][1].raised \/ rlog[r][1].bytes = NoBytes)

PrinterRaisedIn(r) == \E k \in 1..Len(plog[r]) : plog[r][k].raised

\* The upload was there and reading it raised
AttachmentReadFailed(q) == q.ctype = "form" /\ q.attachment = "unreadable"

\* C11: every failure inside a /print request is answered with an error
\* response; only a failed preview or grayscale conversion may be passed
\* over while the request still reports success.
C11_FailuresSurfaced ==
    \A r \in Slots :
        DonePrint(r)
        /\ (AttachmentReadFailed(req[r]) \/ RenderFailedIn(r) \/ PrinterRaisedIn(r))
        => ~resp[r].success /\ resp[r].status \in {400, 500}

\* C12: with name and due_date given, whatever the due_date text, a failed
\* render is answered with the HTTP 500 JSON body {success: false, error};
\* it never leaves the handler as an unhandled exception.
C12_RenderFailureIsJson500 ==
    \A r \in Slots :
        DonePrint(r) /\ ~Blank(req[r].name) /\ ~Blank(req[r].due_date)
        /\ RenderFailedIn(r)
        => /\ resp[r].status = 500
           /\ resp[r].json
           /\ ~resp[r].success
           /\ resp[r].error # ""

DoneCall(r) == pc[r] = "done" /\ req[r].op = "call"

NoBytesGiven(b) == b.fmt \in {"none", "empty"}

\* C13: print_to_thermal_printer given None or empty bytes raises before a
\* transport is created or used; when the image transmit fails the call
\* raises without a second transmit attempt.
C13_PrinterFailsLoudly ==
    \A r \in Slots : \A k \in 1..Len(plog[r]) :
        /\ NoBytesGiven(plog[r][k].bytes) =>
             /\ plog[r][k].raised
             /\ plog[r][k].created = 0 /\ plog[r][k].opened = 0
             /\ plog[r][k].ops = <<>>
        /\ plog[r][k].attempts > plog[r][k].transmits =>
             plog[r][k].raised /\ plog[r][k].attempts = 1

\* C13 witness: one call given None and one whose image() failed.
C13_Witness ==
    \E r, t \in Slots :
        /\ DoneCall(r) /\ plog[r][1].bytes = NoBytes /\ plog[r][1].raised
        /\ DoneCall(t) /\ plog[t][1].attempts = 1 /\ plog[t][1].transmits = 0
        /\ plog[t][1].raised

\* C14: a call that returns normally issued exactly one image transmit and
\* then exactly one cut; no call issues a cut unless its image transmit
\* completed.
C14_ImageThenCut ==
    \A r \in Slots : \A k \in 1..Len(plog[r]) :
        /\ ~plog[r][k].raised =>
             /\ plog[r][k].ops = <<"image", "cut">>
             /\ plog[r][k].transmits = 1 /\ plog[r][k].cuts = 1
        /\ \A i \in 1..Len(plog[r][k].ops) :
             plog[r][k].ops[i] = "cut" =>
                /\ plog[r][k].transmits = 1
                /\ \E j \in 1..(i - 1) : plog[r][k].ops[j] = "image"

\* C14 witness: a call that returned normally and one whose image() failed.
C14_Witness ==
    \E r, t \in Slots :
        /\ DoneCall(r) /\ ~plog[r][1].raised /\ plog[r][1].cuts = 1
        /\ DoneCall(t) /\ plog[t][1].err = "image" /\ plog[t][1].ops = <<"image">>

\* C15: when print_to_thermal_printer has returned or raised, no connection
\* that the call opened is still open.
C15_ConnectionReleased ==
    \A r \in Slots : \A k \in 1..Len(plog[r]) :
        plog[r][k].closed + plog[r][k].released >= plog[r][k].opened

DoneHistory(r) == pc[r] = "done" /\ req[r].op = "history"

\* C16: GET /history answers with one item per entry held in history, at
\* most HISTORY_LIMIT of them, newest first, each carrying the entry's id,
\* name and preview and no image_bytes; history is left as it was.
C16_HistoryListsEntries ==
    \A r \in Slots :
        DoneHistory(r) =>
            /\ resp[r].status = 200 /\ resp[r].json
            /\ Len(resp[r].items) = Len(before[r])
            /\ Len(resp[r].items) <= HISTORY_LIMIT
            /\ \A i \in 1..Len(before[r]) :
                 /\ resp[r].items[i].id = before[r][i].id
                 /\ resp[r].items[i].name = before[r][i].name
                 /\ resp[r].items[i].preview = before[r][i].preview
                 /\ "image_bytes" \notin DOMAIN resp[r].items[i]
            /\ \A i, j \in 1..Len(resp[r].items) :
                 i < j => resp[r].items[i].id > resp[r].items[j].id
            /\ after[r] = before[r]

\* C16 witness: /history answered from a full deque that has evicted.
C16_Witness ==
    \E r \in Slots :
        /\ DoneHistory(r)
        /\ Len(resp[r].items) = HISTORY_LIMIT
        /\ resp[r].items[1].id > HISTORY_LIMIT

\* C17: for every /print request with name and due_date set, the bytes handed
\* to the printer and the bytes stored in history are an image exactly
\* PRINT_WIDTH wide, whatever width the renderer produced.
C17_WidthNormalized ==
    \A r \in Slots :
        DonePrint(r) /\ ~Blank(req[r].name) /\ ~Blank(req[r].due_date) =>
            /\ \A k \in 1..Len(plog[r]) :
                 Opens(plog[r][k].bytes) => plog[r][k].bytes.w = PRINT_WIDTH
            /\ Appended(r) /\ Opens(after[r][1].image_bytes) =>
                 after[r][1].image_bytes.w = PRINT_WIDTH

\* The render gave bytes and their grayscale conversion raised
ConversionFailedIn(r) ==
    /\ rlog[r] # <<>> /\ ~rlog[r][1].raised
    /\ rlog[r][1].bytes # NoBytes /\ ~Converts(rlog[r][1].bytes)

\* C18: when the grayscale conversion of the rendered bytes fails, /print
\* hands the renderer's bytes unchanged to the printer and fails only if
\* the printer does; when the printer succeeds the answer is 200 with
\* success true and the new history entry stores those same bytes.
C18_ConversionFallback ==
    \A r \in Slots :
        DonePrint(r) /\ ConversionFailedIn(r) =>
            /\ Len(plog[r]) = 1
            /\ plog[r][1].bytes = rlog[r][1].bytes
            /\ resp[r].status # 200 => plog[r][1].raised
            /\ ~plog[r][1].raised =>
                 /\ resp[r].status = 200 /\ resp[r].success
                 /\ Appended(r)
                 /\ after[r][1].image_bytes = rlog[r][1].bytes

\* C18 witness: a print whose conversion failed and whose printer succeeded.
C18_Witness ==
    \E r \in Slots :
        /\ DonePrint(r) /\ ConversionFailedIn(r)
        /\ ~plog[r][1].raised /\ resp[r].status = 200
        /\ after[r][1].image_bytes = TruncBytes(PRINT_WIDTH)

\* The HTML was built and the backends were tried
Rendered(r) == DonePrint(r) /\ rlog[r] # <<>> /\ ~rlog[r][1].raised

\* The first of the returned values that is not None
FirstBytes(got) ==
    got[CHOOSE i \in 1..Len(got) :
            got[i] # NoBytes /\ \A j \in 1..(i - 1) : got[j] = NoBytes]

\* C19: create_task_image runs imgkit first and runs Selenium exactly when
\* imgkit returned None; it returns no image exactly when both backends
\* returned None, and otherwise the bytes of the first backend that
\* returned some.
C19_ImgkitThenSelenium ==
    \A r \in Slots :
        Rendered(r) =>
            /\ Len(rlog[r][1].calls) \in {1, 2}
            /\ Len(rlog[r][1].got) = Len(rlog[r][1].calls)
            /\ rlog[r][1].calls[1] = "imgkit"
            /\ Len(rlog[r][1].calls) = 2 <=> rlog[r][1].got[1] = NoBytes
            /\ Len(rlog[r][1].calls) = 2 => rlog[r][1].calls[2] = "selenium"
            /\ rlog[r][1].bytes = NoBytes <=>
                 /\ Len(rlog[r][1].got) = 2
                 /\ rlog[r][1].got[1] = NoBytes /\ rlog[r][1].got[2] = NoBytes
            /\ rlog[r][1].bytes # NoBytes =>
                 rlog[r][1].bytes = FirstBytes(rlog[r][1].got)

\* C19 witness: imgkit returned None and Selenium's bytes were used.
C19_Witness ==
    \E r \in Slots :
        /\ Rendered(r)
        /\ rlog[r][1].calls = <<"imgkit", "selenium">>
        /\ rlog[r][1].got[1] = NoBytes
        /\ rlog[r][1].bytes = TruncBytes(PRINT_WIDTH)
        /\ Len(plog[r]) = 1 /\ plog[r][1].bytes = TruncBytes(PRINT_WIDTH)

\* The priority field holds nothing, something that is no number, or a
\* whole number other than 1, 2 and 3
PriorityNonNumeric(p) ==
    ~Blank(p) /\ \E i \in 1..Len(Trimmed(p.v)) : Trimmed(p.v)[i] \notin Digits \cup {"-"}
PriorityOutOfRange(p) ==
    /\ ~Blank(p) /\ ~PriorityNonNumeric(p)
    /\ Trimmed(p.v) \notin {<<"1">>, <<"2">>, <<"3">>}
PriorityUnusable(p) == Blank(p) \/ PriorityNonNumeric(p) \/ PriorityOutOfRange(p)

\* C20: a /print request with name and due_date is never answered 400
\* whatever its priority field holds; a missing, non-numeric or out-of-range
\* priority becomes 2, and the priority of every success response and of
\* every history entry is 1, 2 or 3.
C20_PriorityDefaults ==
    /\ \A i \in 1..Len(history) : history[i].priority \in {1, 2, 3}
    /\ \A r \in Slots :
         DonePrint(r) /\ ~Blank(req[r].name) /\ ~Blank(req[r].due_date) =>
            /\ resp[r].status # 400
            /\ resp[r].success =>
                 /\ resp[r].task.priority \in {1, 2, 3}
                 /\ PriorityUnusable(req[r].priority) => resp[r].task.priority = 2
                 /\ Appended(r) /\ after[r][1].priority = resp[r].task.priority

\* C20 witness: the ticket of an out-of-range priority printed as Medium
\* after one printed with a priority of its own.
C20_Witness ==
    \E r \in Slots :
        /\ DonePrint(r) /\ resp[r].success
        /\ req[r].priority = Given(<<"7">>)
        /\ resp[r].task.priority = 2
        /\ Len(after[r]) = 2 /\ after[r][2].priority = 3

\* The answer to a /reprint request left history as the request found it
C21_Frame ==
    \A r \in Slots :
        DoneReprint(r) =>
            /\ resp[r].status \in {200, 404, 500}
            /\ after[r] = before[r]
            /\ Len(after[r]) = Len(before[r])
            /\ NewId(after[r]) = NewId(before[r])

\* No step of a /reprint request, its arrival or its answer, touches
\* history or the ids given out
C21_Step ==
    \A r \in Slots :
        pc'[r] # pc[r] /\ req'[r].op = "reprint" =>
            /\ history' = history
            /\ issued' = issued
            /\ NewId(history') = NewId(history)

\* C21: a /reprint request leaves history as it is whether it answers 200,
\* 404 or 500: the same entries in the same order with the same ids,
\* metadata and bytes; no entry is created and the next id stays the same.
C21_ReprintLeavesHistory == [](C21_Frame) /\ [][C21_Step]_vars

\* C21 witness: an older entry reprinted successfully, history as before.
C21_Witness ==
    \E r \in Slots :
        /\ DoneReprint(r) /\ resp[r].status = 200 /\ resp[r].success
        /\ Len(before[r]) = 3 /\ history = before[r]
        /\ Len(issued) = 3
        /\ Len(plog[r]) = 1 /\ ~plog[r][1].raised

\* C22: every entry held in history stores image bytes that are neither
\* None nor empty, so /reprint of an id held in history calls the printer
\* and never fails with "No image provided to print."
C22_EntriesHoldBytes ==
    /\ \A i \in 1..Len(history) : ~NoBytesGiven(history[i].image_bytes)
    /\ \A r \in Slots :
         /\ Appended(r) =>
              /\ ~NoBytesGiven(after[r][1].image_bytes)
              /\ Len(plog[r]) = 1 /\ ~plog[r][1].raised
              /\ plog[r][1].bytes = after[r][1].image_bytes
         /\ DoneReprint(r) /\ Held(req[r].id, before[r]) =>
              /\ Len(plog[r]) = 1
              /\ ~NoBytesGiven(plog[r][1].bytes)
              /\ plog[r][1].err # "No image provided to print."

\* C22 witness: a held entry's reprint failed, for the printer being
\* unreachable and not for want of bytes.
C22_Witness ==
    \E r \in Slots :
        /\ DoneReprint(r) /\ Held(req[r].id, before[r])
        /\ resp[r].status = 500
        /\ plog[r][1].raised /\ plog[r][1].err = "connect"
        /\ plog[r][1].bytes = before[r][Len(before[r])].image_bytes

====
